---- MODULE Spec2Model ----
(***************************************************************************)
(* Model of the cherry-pick job engine of DevOps-Nexus                     *)
(* (src/servers/github-helper/src/index.ts): the two submission servers,   *)
(* the job queue they share with the worker, the worker loop, processJob   *)
(* and the git workspace / remote it drives.                               *)
(*                                                                         *)
(* queue.js (initQueueDb, addJobToQueue, getNextJob, completeJob, failJob) *)
(* is imported by the source but is not part of it; its operations are     *)
(* modelled from section 4.1 of the specification.                         *)
(***************************************************************************)
EXTENDS Integers, Sequences, FiniteSets, TLC

\* ------------------------------------------------------------------ bounds
\* Number of submission requests (accepted or rejected) in one behaviour.
MaxSubmits == 2
\* Number of failures of the environment (the network under gh and git, the
\* queue store) in one behaviour.
MaxFaults == 1

\* The merged pull requests of the upstream repository, by number.  The merge
\* commit of pull request n is Sha(n).
PRNumbers == {1, 2, 3}

\* The merge timestamps of pull requests 1, 2, 3 in the upstream histories
\* considered: merged in the order 2, 1, 3; 1 and 2 merged at the same time;
\* merged in number order with 2 and 3 at the same time.
MergeTimes == {<<2, 1, 3>>, <<1, 1, 2>>, <<1, 2, 2>>}

\* ------------------------------------------------------------------ values
\* Branch names are sequences of characters, so that grep's substring match
\* can be computed.
BranchRel == <<"r", "e", "l">>
BranchMain == <<"m", "a", "i", "n">>
NoBranch == <<>>
Branches == {BranchRel, BranchMain}
\* A second maintenance branch, whose name starts with the name of the first.
BranchRel2 == <<"r", "e", "l", "2">>

Repository == "org/app"
FilterBackport == "label:backport"
FilterNone == "label:none"
CallbackUrl == "http://cb"

\* A commit is <<n, k>>: k = 0 is the merge commit of pull request n, k = 1 a
\* commit created by cherry-picking it (a new object with a new id).
Sha(n) == <<n, 0>>
Picked(n) == <<n, 1>>

Range(s) == {s[i] : i \in 1..Len(s)}

IsPrefix(s, t) == Len(s) <= Len(t) /\ SubSeq(t, 1, Len(s)) = s

\* grep PATTERN: a line matches when the pattern occurs in it.
IsSubstring(p, line) ==
    \E i \in 0..(Len(line) - Len(p)) : SubSeq(line, i + 1, i + Len(p)) = p

NoError == <<"", 0>>

\* -------------------------------------------------------------- variables
VARIABLES
    queue,      \* queue.js store: the job records, oldest first
    submitted,  \* number of submission requests handled so far
    response,   \* the answer to the latest submission request
    faults,     \* number of environment failures so far
    mergedAt,   \* upstream: merge timestamp of each pull request
    conflicting,\* upstream: the pull requests whose commit does not apply
                \* cleanly to the target branch
    remote,     \* upstream: commits of each branch of the remote
    ws,         \* the local clone under WORKSPACE_DIR/<repository>
    active,     \* the worker processes that were started
    ghToken,    \* whether GH_TOKEN is set in the workers' environment
    dbReady,    \* runServer's initQueueDb() has completed
    pc,         \* each worker: its position in main / processJob
    job,        \* each worker: id of the job it claimed (0: none)
    todo,       \* each worker: the commits of commitsToPick not yet visited
    err,        \* each worker: the message of the error it caught
    slept,      \* the time, in ms, the worker loops have spent suspended
    webhooks,   \* the payloads handed to axios.post, in order
    hist        \* per job id: what processJob did for it (observation only)

vars == <<queue, submitted, response, faults, mergedAt, conflicting, remote,
          ws, active, ghToken, dbReady, pc, job, todo, err, slept, webhooks,
          hist>>

\* The parts no action changes.
upstream == <<mergedAt, conflicting, active, ghToken>>

Workers == {"w1", "w2"}
JobIds == 1..MaxSubmits

\* ------------------------------------------------------- submission input
RequiredFields == {"repository", "targetBranch", "prFilterQuery"}

\* The params object of a request: the fields present and their values (a
\* field that is absent reads as undefined; it is given the empty value here
\* and is not in "present").
Requests ==
    {r \in [present : SUBSET RequiredFields,
            repository : {"", Repository},
            targetBranch : {NoBranch, BranchRel},
            prFilterQuery : {"", FilterBackport, FilterNone},
            callbackUrl : {"", CallbackUrl}] :
        /\ ("repository" \notin r.present => r.repository = "")
        /\ ("targetBranch" \notin r.present => r.targetBranch = NoBranch)
        /\ ("prFilterQuery" \notin r.present => r.prFilterQuery = "")}

\* JavaScript truthiness of a string field: undefined and "" are falsy.
Truthy(r, f) ==
    /\ f \in r.present
    /\ CASE f = "repository" -> r.repository /= ""
         [] f = "targetBranch" -> r.targetBranch /= NoBranch
         [] f = "prFilterQuery" -> r.prFilterQuery /= ""

\* CherryPickParams.parse: the three z.string() fields must be present.
ZodParseOk(r) == RequiredFields \subseteq r.present

\* A validation that tests the repository only.
MissingRequiredRepositoryOnly(r) == ~Truthy(r, "repository")

\* The guard of enqueueCherryPickJob's "Missing required parameters" throw.
MissingRequired(r) ==
    ~Truthy(r, "repository") \/ ~Truthy(r, "targetBranch")
        \/ ~Truthy(r, "prFilterQuery")

NoResponse == [server |-> "none", kind |-> "none", jobId |-> 0]

\* ------------------------------------------------------------- job queue
NewJob(id, r) ==
    [id |-> id, repository |-> r.repository, targetBranch |-> r.targetBranch,
     prFilterQuery |-> r.prFilterQuery, callbackUrl |-> r.callbackUrl,
     status |-> "queued", error |-> NoError]

\* addJobToQueue(jobId, params): persist a new job in status queued.
addJobToQueue(q, id, r) == Append(q, NewJob(id, r))

QueuedIdx(q) == {i \in 1..Len(q) : q[i].status = "queued"}

\* getNextJob: the oldest queued job (0: there is none).
NextQueuedIdx(q) ==
    IF QueuedIdx(q) = {} THEN 0
    ELSE CHOOSE i \in QueuedIdx(q) : \A k \in QueuedIdx(q) : i <= k

IdxOf(q, id) == CHOOSE i \in 1..Len(q) : q[i].id = id

StatusOf(q, id) == q[IdxOf(q, id)].status

Terminal == {"completed", "failed"}

\* A store that lets any job be moved.
CanTransitionAlways(q, id) == TRUE

\* completeJob / failJob: a running job moves to the terminal status; any
\* other job is left alone (the call is rejected with InvalidTransitionError).
CanTransition(q, id) == StatusOf(q, id) = "running"

Transition(q, id, status, error) ==
    IF CanTransition(q, id)
    THEN [q EXCEPT ![IdxOf(q, id)].status = status,
                   ![IdxOf(q, id)].error = error]
    ELSE q

\* ------------------------------------------------------ upstream host (gh)
\* --search "<prFilterQuery>" --state merged: the pull requests selected.
Matching(filter) == IF filter = FilterBackport THEN PRNumbers ELSE {}

Orderings(S) ==
    {s \in [1..Cardinality(S) -> S] :
        \A i, k \in 1..Cardinality(S) : i /= k => s[i] /= s[k]}

\* --sort merged-at --order asc: ascending merge time.  The command names no
\* second key, so pull requests merged at the same time come in any order.
SortedByMergedAt(s, at) ==
    \A i, k \in 1..Len(s) : i < k => at[s[i]] <= at[s[k]]

\* gh pr list ... --json mergedAt,number,mergeCommit: the lists it can print.
ghPrList(filter, at) ==
    {[i \in 1..Len(s) |->
        [mergedAt |-> at[s[i]], number |-> s[i], mergeCommit |-> Sha(s[i])]] :
     s \in {o \in Orderings(Matching(filter)) : SortedByMergedAt(o, at)}}

\* all_prs.map(pr => pr.mergeCommit.oid)
commitsToPick(all_prs) == [i \in 1..Len(all_prs) |-> all_prs[i].mergeCommit]

\* The history of the default branch: every merge commit, in merge order.
MainHistory(at) ==
    LET s == CHOOSE o \in Orderings(PRNumbers) :
                 \A i, k \in 1..Len(o) : i < k =>
                     \/ at[o[i]] < at[o[k]]
                     \/ (at[o[i]] = at[o[k]] /\ o[i] < o[k])
    IN [i \in 1..Len(s) |-> Sha(s[i])]

\* ------------------------------------------------------------ git commands
NoWorkspace ==
    [exists |-> FALSE, full |-> FALSE, head |-> NoBranch, local |-> <<>>,
     origin |-> <<>>, pending |-> "none"]

\* git clone --branch T --single-branch: one branch, and a fetch refspec
\* that names only it.
GitClone(rem, target) ==
    [exists |-> TRUE, full |-> FALSE, head |-> target,
     local |-> (target :> rem[target]), origin |-> (target :> rem[target]),
     pending |-> "none"]

\* git fetch --all: updates the remote-tracking refs the refspec covers.
GitFetchAll(w, rem) ==
    [w EXCEPT !.origin = IF w.full THEN rem
                         ELSE [b \in DOMAIN w.origin |-> rem[b]]]

\* git checkout T refuses to run on an index with unmerged entries.
GitCheckoutOk(w, target) ==
    /\ w.pending /= "conflict"
    /\ target \in (DOMAIN w.local) \cup (DOMAIN w.origin)

\* A checkout that stays on the branch the clone is on.
GitCheckoutStay(w, target) == w

\* git checkout T: creates T from origin/T when there is no local T, and
\* cancels a cherry-pick that is in progress without conflicts.
GitCheckout(w, target) ==
    [w EXCEPT !.head = target,
              !.local = IF target \in DOMAIN w.local THEN w.local
                        ELSE (target :> w.origin[target]) @@ w.local,
              !.pending = "none"]

\* git reset --hard origin/T
GitResetHard(w, target) ==
    [w EXCEPT !.local = [w.local EXCEPT ![w.head] = w.origin[target]],
              !.pending = "none"]

\* git pull origin T: fetch T and fast-forward the current branch to it.
GitPull(w, rem, target) ==
    [w EXCEPT !.origin = [w.origin EXCEPT ![target] = rem[target]],
              !.local = [w.local EXCEPT ![w.head] = rem[target]]]

\* The objects the clone holds: everything for a full clone, else what its
\* branches reach.
Available(w, sha) ==
    \/ w.full
    \/ \E b \in DOMAIN w.local : sha \in Range(w.local[b])
    \/ \E b \in DOMAIN w.origin : sha \in Range(w.origin[b])

\* A skip check that never finds the commit.
SkipCheckNever(w, sha, target) == FALSE

\* git branch --contains <sha> | grep <targetBranch>: some local branch
\* that contains the commit has a name in which targetBranch occurs.
SkipCheck(w, sha, target) ==
    \E b \in DOMAIN w.local :
        /\ sha \in Range(w.local[b])
        /\ IsSubstring(target, b)

\* git cherry-pick <sha> succeeding: a new commit on the current branch.
GitCherryPick(w, sha) ==
    [w EXCEPT !.local = [w.local EXCEPT ![w.head] = Append(@, Picked(sha[1]))]]

\* The change of <sha> is already on the current branch as a cherry-picked
\* commit: cherry-picking it again stops with "now empty".
AlreadyApplied(w, sha) == Picked(sha[1]) \in Range(w.local[w.head])

\* git push origin T is accepted when it fast-forwards the remote branch.
GitPushOk(w, rem, target) ==
    /\ target \in DOMAIN w.local
    /\ IsPrefix(rem[target], w.local[target])

\* "... (abort logic) ..." of the failure handler: no command is run.
AbortLogic(w) == w

\* ------------------------------------------------------------------- Init
NoHist ==
    [starts |-> 0, list |-> <<>>, stage |-> "none", attempts |-> <<>>,
     skipped |-> <<>>, applied |-> <<>>, conflict |-> 0, tipBefore |-> <<>>,
     tipAtStart |-> <<>>, remoteAtStart |-> <<>>, pushed |-> FALSE,
     ended |-> FALSE, endTip |-> <<>>, endPending |-> "none",
     endRemote |-> <<>>, rejected |-> FALSE, returned |-> FALSE]

\* The empty queue, no request handled yet, and no worker holding a job.
InitProcesses ==
    /\ queue = <<>>
    /\ submitted = 0
    /\ response = NoResponse
    /\ faults = 0
    /\ job = [w \in Workers |-> 0]
    /\ todo = [w \in Workers |-> <<>>]
    /\ err = [w \in Workers |-> NoError]
    /\ slept = 0
    /\ webhooks = <<>>
    /\ hist = [id \in JobIds |-> NoHist]

\* What is there before any request: the upstream repository with its merged
\* pull requests, the target branch forked from the default branch after
\* none or after the first of them, and either no clone yet or a full clone
\* somebody provisioned under WORKSPACE_DIR.
InitCommon ==
    /\ InitProcesses
    /\ mergedAt \in MergeTimes
    /\ conflicting \in {{}} \cup {{n} : n \in PRNumbers}
    /\ \E k \in 0..1 :
        remote = [b \in Branches |->
                    IF b = BranchMain THEN MainHistory(mergedAt)
                    ELSE SubSeq(MainHistory(mergedAt), 1, k)]
    /\ \/ ws = NoWorkspace
       \/ ws = [exists |-> TRUE, full |-> TRUE, head |-> BranchMain,
                local |-> (BranchMain :> remote[BranchMain]),
                origin |-> remote, pending |-> "none"]

\* The servers and the worker past their start-up: the store initialised,
\* the credential found, the worker at the head of its loop.
Init ==
    /\ InitCommon
    /\ active = {"w1"}
    /\ ghToken = TRUE
    /\ dbReady = TRUE
    /\ pc = [w \in Workers |-> IF w \in active THEN "poll" ELSE "off"]

\* One upstream history: pull requests merged in the order 2, 1, 3, the
\* target branch forked after the first merge, a full clone in place.
OneUpstream ==
    /\ mergedAt = <<2, 1, 3>>
    /\ remote[BranchRel] = <<Sha(2)>>
    /\ ws.exists

InitServers ==
    /\ Init
    /\ OneUpstream
    /\ conflicting = {}

InitNotify ==
    /\ Init
    /\ OneUpstream
    /\ conflicting \in {{}, {1}}

InitMulti ==
    /\ InitCommon
    /\ OneUpstream
    /\ conflicting \in {{}, {1}}
    /\ active = Workers
    /\ ghToken = TRUE
    /\ dbReady = TRUE
    /\ pc = [w \in Workers |-> "poll"]

\* Two maintenance branches: rel forked from the default branch before the
\* first merge or after it, rel2 after the second merge; a full clone in
\* place.
InitBranches ==
    /\ InitProcesses
    /\ mergedAt = <<2, 1, 3>>
    /\ conflicting = {}
    /\ \E k \in 0..1 :
        remote = [b \in Branches \cup {BranchRel2} |->
                    IF b = BranchMain THEN MainHistory(mergedAt)
                    ELSE IF b = BranchRel2
                    THEN SubSeq(MainHistory(mergedAt), 1, 2)
                    ELSE SubSeq(MainHistory(mergedAt), 1, k)]
    /\ ws = [exists |-> TRUE, full |-> TRUE, head |-> BranchMain,
             local |-> (BranchMain :> remote[BranchMain]),
             origin |-> remote, pending |-> "none"]
    /\ active = {"w1"}
    /\ ghToken = TRUE
    /\ dbReady = TRUE
    /\ pc = [w \in Workers |-> IF w \in active THEN "poll" ELSE "off"]

\* The two processes at their first line: runServer has connected the
\* transport and not yet initialised the store, the worker's main has not
\* yet looked at its environment; one upstream history.
InitStartup ==
    /\ InitCommon
    /\ OneUpstream
    /\ conflicting = {}
    /\ active = {"w1"}
    /\ ghToken \in BOOLEAN
    /\ dbReady = FALSE
    /\ pc = [w \in Workers |-> IF w \in active THEN "start" ELSE "off"]

\* ------------------------------------------------------ submission servers
\* enqueueCherryPickJob of the SDK server: validate, then addJobToQueue.
enqueueCherryPickJob(q, id, r) ==
    IF MissingRequired(r)
    THEN [queue |-> q, kind |-> "error", jobId |-> 0]
    ELSE [queue |-> addJobToQueue(q, id, r), kind |-> "queued", jobId |-> id]

\* enqueueCherryPickJob of the readline server: validate, make an id, answer
\* (the "add to queue" line is a comment there).
enqueueCherryPickJobStub(q, id, r) ==
    IF MissingRequired(r)
    THEN [queue |-> q, kind |-> "error", jobId |-> 0]
    ELSE [queue |-> q, kind |-> "queued", jobId |-> id]

\* runServer, after await server.connect(transport): await initQueueDb().
initQueueDb ==
    /\ ~dbReady
    /\ dbReady' = TRUE
    /\ UNCHANGED <<queue, submitted, response, faults, upstream, slept,
                   remote, ws, pc, job, todo, err, webhooks, hist>>

\* CallTool handler, case "cherry-pick".  The handler is registered and the
\* transport connected before initQueueDb() is awaited; what addJobToQueue
\* does on a store that is not initialised is not fixed by anything: it
\* stores the job or it throws.
CallToolCherryPick(r) ==
    /\ submitted < MaxSubmits
    /\ LET rejected == [queue |-> queue, kind |-> "error", jobId |-> 0]
           res == IF ZodParseOk(r)
                  THEN enqueueCherryPickJob(queue, submitted + 1, r)
                  ELSE rejected
       IN \E out \in {res} \cup (IF dbReady THEN {} ELSE {rejected}) :
            /\ queue' = out.queue
            /\ response' = [server |-> "sdk", kind |-> out.kind,
                            jobId |-> out.jobId]
    /\ submitted' = submitted + 1
    /\ UNCHANGED <<faults, upstream, dbReady, slept, remote, ws, pc, job, todo, err,
                   webhooks, hist>>

\* rl.on('line'), case 'tasks/cherryPickFromPrFilter'.
HandleLineCherryPick(r) ==
    /\ submitted < MaxSubmits
    /\ LET res == enqueueCherryPickJobStub(queue, submitted + 1, r)
       IN /\ queue' = res.queue
          /\ response' = [server |-> "readline", kind |-> res.kind,
                          jobId |-> res.jobId]
    /\ submitted' = submitted + 1
    /\ UNCHANGED <<faults, upstream, dbReady, slept, remote, ws, pc, job, todo, err,
                   webhooks, hist>>

\* CallTool handler, tool "health": ListTools advertises it, the switch has
\* no case for it, and the default case throws "Unknown tool: health".
CallToolHealth ==
    /\ response' = [server |-> "sdk", kind |-> "unknown tool", jobId |-> 0]
    /\ UNCHANGED <<queue, submitted, faults, upstream, dbReady, slept, remote, ws, pc, job,
                   todo, err, webhooks, hist>>

\* rl.on('line'), case 'health/ping': result {status: 'ok', service}.
HandleLineHealth ==
    /\ response' = [server |-> "readline", kind |-> "ok", jobId |-> 0]
    /\ UNCHANGED <<queue, submitted, faults, upstream, dbReady, slept, remote, ws, pc, job,
                   todo, err, webhooks, hist>>

\* ------------------------------------------------------------------ worker
JobOf(id) == queue[IdxOf(queue, id)]

\* A sendWebhook that posts whether or not there is a callbackUrl.
sendWebhookAlways(hooks, params, status, error) ==
    Append(hooks, [jobId |-> params.id, status |-> status,
                   repository |-> params.repository, error |-> error,
                   delivery |-> "pending"])

\* sendWebhook(params, status, error): nothing without a callbackUrl, else
\* one axios.post of the payload; the promise is not awaited.
sendWebhook(hooks, params, status, error) ==
    IF params.callbackUrl = "" THEN hooks
    ELSE Append(hooks, [jobId |-> params.id, status |-> status,
                        repository |-> params.repository, error |-> error,
                        delivery |-> "pending"])

\* Handlers that mark the job failed when the delivery failed.
OnDeliveryFailsJob(q, hook, outcome) ==
    IF outcome = "failed"
    THEN [q EXCEPT ![IdxOf(q, hook.jobId)].status = "failed"]
    ELSE q

\* The .then and .catch handlers of the axios.post promise: each writes one
\* log line; the queue is not touched.
OnDelivery(q, hook, outcome) == q

\* The promise of one axios.post settles: the endpoint answered ("sent") or
\* the request failed ("failed").  A delivery that never answers stays
\* pending.
AxiosPostSettles(i, outcome) ==
    /\ webhooks[i].delivery = "pending"
    /\ webhooks' = [webhooks EXCEPT ![i].delivery = outcome]
    /\ queue' = OnDelivery(queue, webhooks[i], outcome)
    /\ UNCHANGED <<submitted, response, faults, upstream, dbReady, slept, remote, ws, pc,
                   job, todo, err, hist>>

\* A call that reaches the network or the store fails.
Fault ==
    /\ faults < MaxFaults
    /\ faults' = faults + 1

\* An error message that leaves the commit out.
CherryPickMessageNoSha(sha) == <<"git cherry-pick", 0>>

\* execSync's error for a failed git cherry-pick <sha>: "Command failed:"
\* and the command line, which holds the commit id.
CherryPickMessage(sha) == <<"git cherry-pick", sha[1]>>

\* A catch block that runs the job again.
OnJobErrorRetry(w, message) ==
    /\ pc' = [pc EXCEPT ![w] = "resolve"]
    /\ err' = [err EXCEPT ![w] = message]

\* Where a worker goes when processJob or completeJob throws: the catch
\* block of the loop, with e.message.
OnJobError(w, message) ==
    /\ pc' = [pc EXCEPT ![w] = "fail"]
    /\ err' = [err EXCEPT ![w] = message]

\* A credential test that never finds the credential missing.
TokenMissingNever(token) == FALSE

\* !process.env.GH_TOKEN
TokenMissing(token) == ~token

\* main, before the loop: without GH_TOKEN process.exit(1); else git config
\* (a throw of it ends the process through main().catch) and on to the
\* loop.
MainStart(w) ==
    /\ pc[w] = "start"
    /\ IF TokenMissing(ghToken)
       THEN /\ pc' = [pc EXCEPT ![w] = "off"]
            /\ UNCHANGED faults
       ELSE \/ /\ Fault
               /\ pc' = [pc EXCEPT ![w] = "off"]
            \/ /\ pc' = [pc EXCEPT ![w] = "poll"]
               /\ UNCHANGED faults
    /\ UNCHANGED <<queue, submitted, response, upstream, dbReady, slept,
                   remote, ws, job, todo, err, webhooks, hist>>

\* main, the head of the loop: job = await getNextJob().  The store hands
\* out the oldest queued job, which it moves to running, or has none (or
\* fails, which the outer catch swallows): the loop then takes the else
\* branch.
GetNextJob(w) ==
    /\ pc[w] = "poll"
    /\ LET i == NextQueuedIdx(queue)
       IN IF i = 0
          THEN /\ pc' = [pc EXCEPT ![w] = "else"]
               /\ UNCHANGED <<queue, job>>
          ELSE /\ queue' = [queue EXCEPT ![i].status = "running"]
               /\ job' = [job EXCEPT ![w] = queue[i].id]
               /\ pc' = [pc EXCEPT ![w] = "resolve"]
    /\ UNCHANGED <<submitted, response, faults, upstream, dbReady, slept, remote, ws, todo,
                   err, webhooks, hist>>

\* How long to wait (in ms) before checking for a new job.
POLL_INTERVAL == 5000

\* "... (wait logic) ..." of the else branch: there is no statement, so no
\* time is spent there.
WaitLogic == 0

\* main, the else branch (no job was found), and from there back to the
\* head of the loop.
ElseBranch(w) ==
    /\ pc[w] = "else"
    /\ slept' = slept + WaitLogic
    /\ pc' = [pc EXCEPT ![w] = "poll"]
    /\ UNCHANGED <<queue, submitted, response, faults, upstream, dbReady, remote, ws,
                   job, todo, err, webhooks, hist>>

\* processJob, step 1: gh pr list, JSON.parse, the empty-list return and
\* commitsToPick.
Resolve(w) ==
    /\ pc[w] = "resolve"
    /\ LET id == job[w]
           h == [hist[id] EXCEPT !.starts = @ + 1,
                                 !.remoteAtStart = remote[JobOf(id).targetBranch]]
       IN \/ /\ Fault
             /\ OnJobError(w, <<"gh pr list", 0>>)
             /\ hist' = [hist EXCEPT ![id] = [h EXCEPT !.stage = "resolve"]]
             /\ UNCHANGED todo
          \/ \E all_prs \in ghPrList(JobOf(id).prFilterQuery, mergedAt) :
                /\ hist' = [hist EXCEPT ![id] = [h EXCEPT !.list = all_prs]]
                /\ IF Len(all_prs) = 0
                   THEN /\ pc' = [pc EXCEPT ![w] = "complete"]
                        /\ UNCHANGED todo
                   ELSE /\ pc' = [pc EXCEPT ![w] = "prepare"]
                        /\ todo' = [todo EXCEPT ![w] = commitsToPick(all_prs)]
                /\ UNCHANGED <<err, faults>>
    /\ UNCHANGED <<queue, submitted, response, upstream, dbReady, slept, remote, ws, job,
                   webhooks>>

\* processJob, step 2: clone when there is no workspace, chdir, fetch --all,
\* checkout, reset --hard, pull.  clone, fetch and pull reach the network and
\* may fail; checkout fails on an unmerged index.
Prepare(w) ==
    /\ pc[w] = "prepare"
    /\ LET id == job[w]
           target == JobOf(id).targetBranch
           w1 == IF ws.exists THEN ws ELSE GitClone(remote, target)
           w2 == GitFetchAll(w1, remote)
           w3 == GitResetHard(GitCheckout(w2, target), target)
           w4 == GitPull(w3, remote, target)
           failed(message) ==
               /\ OnJobError(w, message)
               /\ hist' = [hist EXCEPT ![id].stage = "prepare"]
       IN \/ /\ ~ws.exists
             /\ Fault
             /\ ws' = ws
             /\ failed(<<"git clone", 0>>)
          \/ /\ Fault
             /\ ws' = w1
             /\ failed(<<"git fetch", 0>>)
          \/ /\ ~GitCheckoutOk(w2, target)
             /\ ws' = w2
             /\ failed(<<"git checkout", 0>>)
             /\ UNCHANGED faults
          \/ /\ GitCheckoutOk(w2, target)
             /\ Fault
             /\ ws' = w3
             /\ failed(<<"git pull", 0>>)
          \/ /\ GitCheckoutOk(w2, target)
             /\ ws' = w4
             /\ pc' = [pc EXCEPT ![w] = "replay"]
             /\ hist' = [hist EXCEPT ![id].tipAtStart = w4.local[w4.head]]
             /\ UNCHANGED <<err, faults>>
    /\ UNCHANGED <<queue, submitted, response, upstream, dbReady, slept, remote, job, todo,
                   webhooks>>

\* processJob, step 3: one iteration of the for loop over commitsToPick.
ReplayStep(w) ==
    /\ pc[w] = "replay"
    /\ todo[w] /= <<>>
    /\ LET id == job[w]
           target == JobOf(id).targetBranch
           sha == Head(todo[w])
           thrown(h) ==
               /\ OnJobError(w, CherryPickMessage(sha))
               /\ hist' = [hist EXCEPT ![id] =
                             [h EXCEPT !.stage = "replay",
                                       !.attempts = Append(@, sha)]]
               /\ UNCHANGED todo
           next(h) ==
               /\ todo' = [todo EXCEPT ![w] = Tail(@)]
               /\ pc' = [pc EXCEPT ![w] =
                           IF Tail(todo[w]) = <<>> THEN "push" ELSE "replay"]
               /\ hist' = [hist EXCEPT ![id] = h]
               /\ UNCHANGED err
       IN IF SkipCheck(ws, sha, target)
          THEN /\ next([hist[id] EXCEPT !.skipped = Append(@, sha)])
               /\ UNCHANGED ws
          ELSE IF ~Available(ws, sha)
          THEN \* fatal: bad object
               /\ thrown(hist[id])
               /\ UNCHANGED ws
          ELSE IF sha[1] \in conflicting
          THEN \* CONFLICT: could not apply
               /\ thrown([hist[id] EXCEPT !.conflict = sha[1],
                                          !.tipBefore = ws.local[ws.head]])
               /\ ws' = [ws EXCEPT !.pending = "conflict"]
          ELSE IF AlreadyApplied(ws, sha)
          THEN \* The previous cherry-pick is now empty
               /\ thrown(hist[id])
               /\ ws' = [ws EXCEPT !.pending = "empty"]
          ELSE /\ next([hist[id] EXCEPT !.attempts = Append(@, sha),
                                        !.applied = Append(@, sha)])
               /\ ws' = GitCherryPick(ws, sha)
    /\ UNCHANGED <<queue, submitted, response, faults, upstream, dbReady, slept, remote, job,
                   webhooks>>

\* processJob, step 4: git push origin <targetBranch>.
Push(w) ==
    /\ pc[w] = "push"
    /\ LET id == job[w]
           target == JobOf(id).targetBranch
       IN \/ /\ \/ Fault
                \/ ~GitPushOk(ws, remote, target) /\ UNCHANGED faults
             /\ OnJobError(w, <<"git push", 0>>)
             /\ hist' = [hist EXCEPT ![id].stage = "push"]
             /\ UNCHANGED <<remote, ws>>
          \/ /\ GitPushOk(ws, remote, target)
             /\ remote' = [remote EXCEPT ![target] = ws.local[target]]
             /\ ws' = [ws EXCEPT !.origin =
                         [ws.origin EXCEPT ![target] = ws.local[target]]]
             /\ pc' = [pc EXCEPT ![w] = "complete"]
             /\ hist' = [hist EXCEPT ![id].pushed = TRUE]
             /\ UNCHANGED <<err, faults>>
    /\ UNCHANGED <<queue, submitted, response, upstream, dbReady, slept, job, todo,
                   webhooks>>

\* How a call of completeJob / failJob can end: it returns; the store fails
\* and nothing was written; the store fails after the write took effect.
StoreOutcomes == {"ok", "error", "lost"}

StoreCall(o) == IF o = "ok" THEN UNCHANGED faults ELSE Fault

\* The state of the workspace and of the remote when the loop is done with
\* a job.
EndOfJob(h, w, target) ==
    [h EXCEPT !.ended = TRUE,
              !.endTip = IF w.head \in DOMAIN w.local
                         THEN w.local[w.head] ELSE <<>>,
              !.endPending = w.pending,
              !.endRemote = remote[target]]

\* main, after processJob returned: await completeJob(job.id), then the
\* success webhook.  A throw of completeJob lands in the same catch block as
\* a throw of processJob.
Complete(w) ==
    /\ pc[w] = "complete"
    /\ LET id == job[w]
       IN \E o \in StoreOutcomes :
            /\ StoreCall(o)
            /\ queue' = IF o = "error" THEN queue
                        ELSE Transition(queue, id, "completed", NoError)
            /\ IF o = "ok" /\ CanTransition(queue, id)
               THEN /\ webhooks' = sendWebhook(webhooks, JobOf(id),
                                               "completed", NoError)
                    /\ pc' = [pc EXCEPT ![w] = "poll"]
                    /\ job' = [job EXCEPT ![w] = 0]
                    /\ todo' = [todo EXCEPT ![w] = <<>>]
                    /\ hist' = [hist EXCEPT ![id] =
                                  [EndOfJob(@, ws, JobOf(id).targetBranch)
                                      EXCEPT !.returned = TRUE]]
                    /\ UNCHANGED err
               ELSE /\ OnJobError(w, <<"completeJob", 0>>)
                    /\ UNCHANGED <<webhooks, job, todo, hist>>
    /\ UNCHANGED <<submitted, response, upstream, dbReady, slept, remote, ws>>

\* main, the catch block: the abort logic (when the message names
\* cherry-pick), await failJob(job.id, e.message), then the failure webhook.
\* A throw of failJob is caught by the outer catch and the loop goes on.
Fail(w) ==
    /\ pc[w] = "fail"
    /\ LET id == job[w]
       IN \E o \in StoreOutcomes :
            /\ StoreCall(o)
            /\ ws' = IF err[w][1] = "git cherry-pick" THEN AbortLogic(ws)
                     ELSE ws
            /\ queue' = IF o = "error" THEN queue
                        ELSE Transition(queue, id, "failed", err[w])
            /\ webhooks' = IF o = "ok" /\ CanTransition(queue, id)
                           THEN sendWebhook(webhooks, JobOf(id), "failed",
                                            err[w])
                           ELSE webhooks
            /\ pc' = [pc EXCEPT ![w] = "poll"]
            /\ job' = [job EXCEPT ![w] = 0]
            /\ err' = [err EXCEPT ![w] = NoError]
            /\ todo' = [todo EXCEPT ![w] = <<>>]
            /\ hist' = [hist EXCEPT ![id] =
                          [EndOfJob(@, ws', JobOf(id).targetBranch)
                              EXCEPT !.rejected =
                                  o /= "error" /\ ~CanTransition(queue, id),
                                     !.returned =
                                  o = "ok" /\ CanTransition(queue, id)]]
    /\ UNCHANGED <<submitted, response, upstream, dbReady, slept, remote>>

\* ------------------------------------------------------------------- Next
\* The well-formed requests without a callback URL.
ReplayRequests ==
    {r \in Requests : ZodParseOk(r) /\ ~MissingRequired(r)
                        /\ r.callbackUrl = ""}

\* The worker with the SDK server in front of the queue, fed well-formed
\* requests.
Next ==
    \/ \E r \in ReplayRequests : CallToolCherryPick(r)
    \/ \E w \in active : GetNextJob(w)
    \/ \E w \in active : ElseBranch(w)
    \/ \E w \in active : Resolve(w)
    \/ \E w \in active : Prepare(w)
    \/ \E w \in active : ReplayStep(w)
    \/ \E w \in active : Push(w)
    \/ \E w \in active : Complete(w)
    \/ \E w \in active : Fail(w)

\* Both submission servers, fed every request, and the worker.
NextServers ==
    \/ \E r \in Requests : CallToolCherryPick(r)
    \/ \E r \in Requests : HandleLineCherryPick(r)
    \/ CallToolHealth
    \/ HandleLineHealth
    \/ \E w \in active : GetNextJob(w)
    \/ \E w \in active : ElseBranch(w)
    \/ \E w \in active : Resolve(w)
    \/ \E w \in active : Prepare(w)
    \/ \E w \in active : ReplayStep(w)
    \/ \E w \in active : Push(w)
    \/ \E w \in active : Complete(w)
    \/ \E w \in active : Fail(w)

\* The well-formed requests, with and without a callback URL.
NotifyRequests == {r \in Requests : ZodParseOk(r) /\ ~MissingRequired(r)}

\* The worker, the SDK server fed well-formed requests that may name a
\* callback URL, and the deliveries of the webhooks.
NextNotify ==
    \/ \E r \in NotifyRequests : CallToolCherryPick(r)
    \/ \E w \in active : GetNextJob(w)
    \/ \E w \in active : ElseBranch(w)
    \/ \E w \in active : Resolve(w)
    \/ \E w \in active : Prepare(w)
    \/ \E w \in active : ReplayStep(w)
    \/ \E w \in active : Push(w)
    \/ \E w \in active : Complete(w)
    \/ \E w \in active : Fail(w)
    \/ \E i \in 1..Len(webhooks) : \E outcome \in {"sent", "failed"} :
            AxiosPostSettles(i, outcome)

\* The well-formed requests for either maintenance branch.
BranchRequests ==
    [present : {RequiredFields}, repository : {Repository},
     targetBranch : {BranchRel, BranchRel2},
     prFilterQuery : {FilterBackport}, callbackUrl : {""}]

\* The worker and the SDK server, fed requests for either maintenance
\* branch.
NextBranches ==
    \/ \E r \in BranchRequests : CallToolCherryPick(r)
    \/ \E w \in active : GetNextJob(w)
    \/ \E w \in active : ElseBranch(w)
    \/ \E w \in active : Resolve(w)
    \/ \E w \in active : Prepare(w)
    \/ \E w \in active : ReplayStep(w)
    \/ \E w \in active : Push(w)
    \/ \E w \in active : Complete(w)
    \/ \E w \in active : Fail(w)

\* The start-up of the SDK server and of the worker, then requests and the
\* worker loop.
NextStartup ==
    \/ initQueueDb
    \/ \E w \in active : MainStart(w)
    \/ \E r \in ReplayRequests : CallToolCherryPick(r)
    \/ \E w \in active : GetNextJob(w)
    \/ \E w \in active : ElseBranch(w)
    \/ \E w \in active : Resolve(w)
    \/ \E w \in active : Prepare(w)
    \/ \E w \in active : ReplayStep(w)
    \/ \E w \in active : Push(w)
    \/ \E w \in active : Complete(w)
    \/ \E w \in active : Fail(w)

\* One worker process, the deployment the design assumes, over every
\* upstream history of Init.
Spec == Init /\ [][Next]_vars

\* The submission servers with every request, over one upstream history.
SpecServers == InitServers /\ [][NextServers]_vars

\* Two worker processes on the same queue and workspace root.
SpecMulti == InitMulti /\ [][Next]_vars

\* Jobs with callback URLs and their notifications, over one upstream
\* history.
SpecNotify == InitNotify /\ [][NextNotify]_vars

\* Jobs for two maintenance branches that share one workspace.
SpecBranches == InitBranches /\ [][NextBranches]_vars

\* The SDK server and one worker from their first lines on, with and
\* without the credential, over one upstream history.
SpecStartup == InitStartup /\ [][NextStartup]_vars

\* ================================================================= claims
HistOf(i) == hist[queue[i].id]

Picks(shas) == [i \in 1..Len(shas) |-> Picked(shas[i][1])]

\* C1: a job is held by at most one worker at a time and processJob is
\* started at most once for it, however the worker loops interleave; a
\* worker that polls holds no job.
AtMostOnceExecution ==
    /\ \A id \in JobIds :
        /\ hist[id].starts <= 1
        /\ Cardinality({w \in Workers : job[w] = id}) <= 1
    /\ \A w \in Workers : pc[w] = "poll" => job[w] = 0
    /\ \A w \in Workers :
        job[w] /= 0 => StatusOf(queue, job[w]) /= "queued"

\* C1 witness: two workers hold two different jobs at the same time, each
\* started once.
TwoWorkersTwoJobs ==
    /\ job["w1"] /= 0
    /\ job["w2"] /= 0
    /\ job["w1"] /= job["w2"]
    /\ hist[job["w1"]].starts = 1
    /\ hist[job["w2"]].starts = 1

\* C2: the status of a job only moves queued -> running -> completed or
\* failed, a terminal status never changes, and a completeJob / failJob
\* that is rejected because the job is not running leaves the queue as it
\* was.
StatusOnlyMovesForward ==
    [][/\ \A i \in 1..Len(queue) :
            \/ queue'[i].status = queue[i].status
            \/ queue[i].status = "queued" /\ queue'[i].status = "running"
            \/ queue[i].status = "running" /\ queue'[i].status \in Terminal
       /\ \A id \in JobIds :
            (hist'[id].rejected /\ ~hist[id].rejected) => queue' = queue]_vars

\* C2 witness: failJob was issued for a job that completeJob had already
\* moved to completed, it was rejected, and the job is still completed.
RejectedSecondTransition ==
    \E i \in 1..Len(queue) :
        HistOf(i).rejected /\ queue[i].status = "completed"

\* C3: a job is failed only when a stage of processJob raised an error, and
\* a job whose stages all succeeded and that the loop is done with is
\* completed.
StatusReflectsReplayOutcome ==
    \A i \in 1..Len(queue) :
        /\ queue[i].status = "failed" => HistOf(i).stage /= "none"
        /\ (HistOf(i).ended /\ HistOf(i).stage = "none")
              => queue[i].status = "completed"

\* C4: within one job the commits are cherry-picked in ascending
\* merge-timestamp order, ties broken by ascending pull-request number.
ReplayOrderTiesByNumber ==
    \A id \in JobIds :
        LET a == hist[id].attempts
        IN \A i, k \in 1..Len(a) : i < k =>
            \/ mergedAt[a[i][1]] < mergedAt[a[k][1]]
            \/ mergedAt[a[i][1]] = mergedAt[a[k][1]] /\ a[i][1] < a[k][1]

\* C5: when no call of the environment fails, a job that runs after a
\* completed job with the same repository, target branch and filter applies
\* no commit and is completed.
IdempotentRerun ==
    \A i, k \in 1..Len(queue) :
        (/\ i < k
         /\ faults = 0
         /\ queue[i].status = "completed"
         /\ queue[i].repository = queue[k].repository
         /\ queue[i].targetBranch = queue[k].targetBranch
         /\ queue[i].prFilterQuery = queue[k].prFilterQuery
         /\ HistOf(k).ended)
        => /\ HistOf(k).applied = <<>>
           /\ HistOf(k).attempts = <<>>
           /\ queue[k].status = "completed"

\* C6: when the loop is done with a job the workspace has no cherry-pick in
\* progress and no unmerged state, and after a conflict the tip of the
\* target branch is the tip from before the conflicting cherry-pick.
CleanAfterEveryJob ==
    \A id \in JobIds :
        hist[id].ended =>
            /\ hist[id].endPending = "none"
            /\ hist[id].conflict /= 0 => hist[id].endTip = hist[id].tipBefore

RemoteUnchangedUnlessCompleted ==
    /\ \A w \in active :
        pc[w] \in {"prepare", "replay", "push"} =>
            remote[JobOf(job[w]).targetBranch] = hist[job[w]].remoteAtStart
    /\ \A i \in 1..Len(queue) :
        /\ (queue[i].status = "failed" /\ HistOf(i).ended)
              => HistOf(i).endRemote = HistOf(i).remoteAtStart
        /\ HistOf(i).stage = "push" => queue[i].status /= "completed"

\* C9: a commit that is reachable from the tip of the target branch when
\* the loop comes to it is not cherry-picked, raises no error, leaves the
\* workspace as it is, and the loop goes on with the next commit.
ReachableCommitIsSkipped ==
    [][\A w \in active :
        (/\ pc[w] = "replay"
         /\ todo[w] /= <<>>
         /\ hist'[job[w]] /= hist[job[w]]
         /\ Head(todo[w]) \in Range(ws.local[JobOf(job[w]).targetBranch]))
        => /\ ws' = ws
           /\ err' = err
           /\ pc'[w] \in {"replay", "push"}
           /\ todo'[w] = Tail(todo[w])
           /\ hist'[job[w]].attempts = hist[job[w]].attempts
           /\ hist'[job[w]].skipped =
                 Append(hist[job[w]].skipped, Head(todo[w]))]_vars

\* C9 witness: a job skipped a commit that was on the target branch and
\* then cherry-picked the next one.
SkippedThenPicked ==
    \E id \in JobIds :
        /\ hist[id].skipped /= <<>>
        /\ hist[id].applied /= <<>>
        /\ hist[id].skipped[1] \in Range(hist[id].tipAtStart)

\* A request in which repository, target branch or filter query is absent
\* or the empty string.
MissingOrEmpty(r) ==
    \/ RequiredFields \ r.present /= {}
    \/ r.repository = ""
    \/ r.targetBranch = NoBranch
    \/ r.prFilterQuery = ""

\* C10: a submission, to either server, in which repository, target branch
\* or filter query is missing or empty is answered with an error and leaves
\* the queue as it was: a submission step either is such a rejection, or no
\* request with a missing or empty field can have produced it.
InvalidSubmissionRejected ==
    [][submitted' /= submitted
        => \/ (queue' = queue /\ response'.kind = "error")
           \/ \A r \in Requests :
                (CallToolCherryPick(r) \/ HandleLineCherryPick(r))
                    => ~MissingOrEmpty(r)]_vars

\* C10 witness: a submission was rejected while the queue held a job.
RejectedWithJobQueued ==
    /\ response.kind = "error"
    /\ Len(queue) = 1
    /\ submitted = 2

\* C11: a submission that was answered {jobId, status: "queued"} has put a
\* job with that id in the queue, where the worker can claim it.
AcceptedSubmissionIsPersisted ==
    response.kind = "queued" =>
        \E i \in 1..Len(queue) : queue[i].id = response.jobId

\* C12: no claimed job is left in running while the loop goes on: a job that
\* is running is the job a worker is working on, so that the worker brings
\* it to completed or failed.
ClaimedJobReachesTerminal ==
    \A i \in 1..Len(queue) :
        queue[i].status = "running" =>
            \E w \in active : job[w] = queue[i].id

HooksOf(id) == {i \in 1..Len(webhooks) : webhooks[i].jobId = id}

\* C13: a delivery that succeeds or fails changes nothing but the record of
\* that delivery: not the queue, not a worker's position, job or caught
\* error, not the workspace or the remote; and the step that dispatches a
\* notification takes the worker straight back to the head of the loop,
\* with no error, whatever the state of the deliveries.
NotificationLeavesJobAndLoopAlone ==
    [][/\ (Len(webhooks') = Len(webhooks) /\ webhooks' /= webhooks)
            => UNCHANGED <<queue, pc, job, todo, err, ws, remote, hist>>
       /\ Len(webhooks') > Len(webhooks)
            => \E w \in active :
                /\ pc[w] \in {"complete", "fail"}
                /\ pc'[w] = "poll"
                /\ job'[w] = 0
                /\ err'[w] = NoError
                /\ StatusOf(queue', job[w]) \in Terminal]_vars

\* C13 witness: the delivery for a completed job failed, the job is still
\* completed, and the worker is working on the next job.
FailedDeliveryNextJobClaimed ==
    /\ Len(webhooks) = 1
    /\ webhooks[1].delivery = "failed"
    /\ webhooks[1].status = "completed"
    /\ StatusOf(queue, webhooks[1].jobId) = "completed"
    /\ \E w \in active : job[w] /= 0 /\ pc[w] = "replay"

WorkspaceHeldByOneJob ==
    \A a, b \in active :
        (/\ a /= b
         /\ pc[a] \in {"replay", "push"}
         /\ pc[b] \in {"replay", "push"})
        => JobOf(job[a]).repository /= JobOf(job[b]).repository

\* C16: when a job comes to the first commit of its list, the clone is on
\* the job's target branch, nothing is in progress in it, and the tip of
\* that branch is the tip of the remote branch.
KnownCleanBase ==
    \A w \in active :
        (/\ pc[w] = "replay"
         /\ hist[job[w]].attempts = <<>>
         /\ hist[job[w]].skipped = <<>>)
        => LET target == JobOf(job[w]).targetBranch
           IN /\ ws.exists
              /\ ws.head = target
              /\ ws.pending = "none"
              /\ ws.local[target] = remote[target]

\* C16 witness: the first job ended with cherry-picked commits that were
\* never pushed, and the second job is at its first commit.
ReplayAfterUnpushedCommits ==
    \E w \in active :
        /\ job[w] = 2
        /\ pc[w] = "replay"
        /\ hist[2].attempts = <<>>
        /\ hist[2].skipped = <<>>
        /\ hist[1].ended
        /\ hist[1].applied /= <<>>
        /\ hist[1].endTip /= hist[1].endRemote

\* C17: a job whose gh pr list returned no pull request ends completed, and
\* the workspace and the remote are what they were when the job started.
ZeroChangesetsCompletes ==
    \A i \in 1..Len(queue) :
        LET h == HistOf(i)
        IN (h.ended /\ h.stage /= "resolve" /\ h.list = <<>>)
            => /\ queue[i].status = "completed"
               /\ h.endRemote = h.remoteAtStart
               /\ h.attempts = <<>>

\* C18: a health query, to either server, is answered with status "ok" and
\* leaves the queue as it was.
HealthAnswersOk ==
    [][(CallToolHealth \/ HandleLineHealth)
        => (response'.kind = "ok" /\ queue' = queue)]_vars

\* C19: when a claim has returned no job, the loop is suspended for
\* POLL_INTERVAL before it is back at the head of the loop for its next
\* claim.
SuspendsAfterEmptyClaim ==
    [][\A w \in active :
        (pc[w] = "else" /\ pc'[w] = "poll")
            => slept' >= slept + POLL_INTERVAL]_vars

\* C20: a worker process stops exactly when a call of the queue store
\* (completeJob, failJob) fails: after the failure the worker is off and
\* claims nothing more, and no error of a job stage turns a worker off.
StoreFailureStopsWorker ==
    [][\A w \in active :
        /\ (pc[w] \in {"complete", "fail"} /\ faults' > faults)
              => pc'[w] = "off"
        /\ (pc'[w] = "off")
              => (pc[w] \in {"complete", "fail"} /\ faults' > faults)]_vars

OneJobAtATime ==
    [][\A w \in active :
        (pc[w] = "poll" /\ job'[w] /= job[w])
            => /\ \A i \in 1..Len(queue) : queue[i].status /= "running"
               /\ Cardinality({i \in 1..Len(queue') :
                                  queue'[i].status = "running"}) <= 1]_vars

\* C23: the skip check skips a commit only when the commit is reachable from
\* the tip of the job's target branch in the workspace; a commit that only
\* other local branches contain goes on to git cherry-pick.
SkipsOnlyWhatTargetContains ==
    [][\A w \in active :
        (/\ pc[w] = "replay"
         /\ todo[w] /= <<>>
         /\ hist'[job[w]].skipped /= hist[job[w]].skipped)
        => Head(todo[w]) \in Range(ws.local[JobOf(job[w]).targetBranch])]_vars

\* C24: the SDK server hands no cherry-pick request to addJobToQueue before
\* initQueueDb has completed: every request it answers with "queued" is
\* answered with the store initialised.
StoreReadyBeforeEnqueue ==
    [][(submitted' /= submitted /\ response'.server = "sdk"
            /\ response'.kind = "queued")
        => dbReady]_vars

\* C25: a worker started without GH_TOKEN never enters the loop: it claims
\* no job, starts no processJob and moves no job out of queued.
NoTokenNoWork ==
    ~ghToken =>
        /\ \A w \in active : pc[w] \in {"start", "off"} /\ job[w] = 0
        /\ \A i \in 1..Len(queue) :
            queue[i].status = "queued" /\ HistOf(i) = NoHist

\* C25 witness: the worker without GH_TOKEN has exited while a job waits in
\* the queue.
ExitedWithJobWaiting ==
    /\ ~ghToken
    /\ pc["w1"] = "off"
    /\ Len(queue) >= 1

====
